---- MODULE Spec2Model ----
(***************************************************************************)
(* Model of app.py: the Sea-Lion Telegram relay.                           *)
(*                                                                         *)
(*  - module start-up: the completion client is built, the registrar       *)
(*    set_webhook() runs inside app.app_context(), and under __main__ it   *)
(*    is called a second time before app.run();                            *)
(*  - set_webhook(): configuration guard, deleteWebhook, setWebhook;       *)
(*  - webhook_telegram(): routing, completion call, escape, sendMessage;   *)
(*  - escape_markdown_v2(): the regex substitution, on strings modelled    *)
(*    as sequences of one-character strings.                               *)
(*                                                                         *)
(* Every blocking outbound call is one step.  A call either returns a      *)
(* response with a status code or raises; the code has no try/except, so   *)
(* a raised error leaves the function that made the call.  The probe       *)
(* index() only reads the platform's registration and is left out.         *)
(***************************************************************************)
EXTENDS Integers, Sequences, FiniteSets, TLC

VARIABLES
    env,          \* TELEGRAM_TOKEN, WEBHOOK_URL, SEA_LION_API_KEY as loaded
    launch,       \* "main": python app.py;  "wsgi": imported by a WSGI server
    pc,           \* position of the process
    regRun,       \* which invocation of set_webhook() is running or ran last
    regRuns,      \* invocations of set_webhook() that passed its guard
    regCalls,     \* outbound calls of the registrar, in order
    platform,     \* webhook registration held by the messaging platform
    honours,      \* which of two conflicting url parameters the platform takes
    handlers,     \* one record per inbound delivery
    arrived,      \* number of inbound deliveries accepted so far
    sends,        \* sendMessage calls, in order
    log,          \* error-level log records
    escIn,        \* escape harness: input text
    escOut,       \* escape harness: escape(input) once applied
    escTwice,     \* escape harness: escape(escape(input)) once applied
    escPc         \* escape harness: "in", "once", "twice"

vars == <<env, launch, pc, regRun, regRuns, regCalls, platform, honours,
          handlers, arrived, sends, log, escIn, escOut, escTwice, escPc>>

procVars == <<env, launch, pc, regRun, regRuns, regCalls, platform, honours>>
hookVars == <<handlers, arrived, sends>>
escVars  == <<escIn, escOut, escTwice, escPc>>

-----------------------------------------------------------------------------
(* Bounds *)

MaxLen        == 3    \* longest text given to the escape harness
MaxDeliveries == 2    \* inbound deliveries in one run
MaxPending    == 1    \* stale updates queued at the platform at start

-----------------------------------------------------------------------------
(* Text escaper, app.py 116-130 *)

BS == "\\"

\* the grave accent (U+0060), written by name: the character itself cannot
\* appear in a string of this notation
GRAVE == "grave"

\* MD2_SPECIALS, the character class without the backslash
MD2_SPECIALS ==
    {"_", "*", "[", "]", "(", ")", "~", GRAVE, ">", "#", "+", "-", "=", "|",
     "{", "}", ".", "!"}

\* a pattern that never matches the backslash alternative
PATTERN_NoBackslash(c) == c \in MD2_SPECIALS

\* _PATTERN = (\\|[MD2_SPECIALS]) : one character, a backslash or a special
PATTERN(c) == c = BS \/ c \in MD2_SPECIALS

RECURSIVE escape_SkipEscaped(_)
\* an escaper that leaves an existing escape sequence alone
escape_SkipEscaped(text) ==
    IF text = <<>> THEN <<>>
    ELSE IF Head(text) = BS /\ Len(text) >= 2 /\ PATTERN(text[2])
    THEN <<BS, text[2]>> \o escape_SkipEscaped(Tail(Tail(text)))
    ELSE (IF PATTERN(Head(text)) THEN <<BS, Head(text)>> ELSE <<Head(text)>>)
         \o escape_SkipEscaped(Tail(text))

RECURSIVE escape_markdown_v2(_)
\* _PATTERN.sub(r"\\\1", text): left to right, each match m becomes \m
escape_markdown_v2(text) ==
    IF text = <<>> THEN <<>>
    ELSE (IF PATTERN(Head(text)) THEN <<BS, Head(text)>> ELSE <<Head(text)>>)
         \o escape_markdown_v2(Tail(text))

\* characters the harness draws its inputs from: every character the pattern
\* matches, and one it does not
EscAlphabet == MD2_SPECIALS \cup {BS, "a"}

Texts(n) == UNION {[1..k -> EscAlphabet] : k \in 0..n}

-----------------------------------------------------------------------------
(* Configuration, app.py 47-63 *)

TOKEN       == "T"
BASE_URL    == "https://relay.example"
API_KEY     == "K"
MODEL       == "sea-lion"
SYSTEM_PROMPT == "You are a helpful assistant"

\* os.getenv / config values: "" stands for an absent or empty value
Envs ==
    [TELEGRAM_TOKEN : {"", TOKEN}, WEBHOOK_URL : {"", BASE_URL},
     SEA_LION_API_KEY : {"", API_KEY}]

TELEGRAM_TOKEN   == env.TELEGRAM_TOKEN
WEBHOOK_URL      == env.WEBHOOK_URL
SEA_LION_API_KEY == env.SEA_LION_API_KEY

\* what an HTTP call made with requests can do: return a status, or raise
Ok200     == [raised |-> FALSE, status_code |-> 200]
HttpOutcomes ==
    {Ok200, [raised |-> FALSE, status_code |-> 500], [raised |-> TRUE, status_code |-> 0]}

Raised(o)  == o.raised
Success(o) == ~o.raised /\ o.status_code = 200

-----------------------------------------------------------------------------
(* The messaging platform's webhook registration (held by the platform) *)

OLD_URL == "https://old.example/hook"

\* deleteWebhook with drop_pending_updates: no webhook, no queued updates
PlatformDelete(p, drop) ==
    [url |-> "", pending |-> IF drop THEN 0 ELSE p.pending]

\* setWebhook: the request carries url twice, in the query string and in the
\* JSON body; which one the platform takes is the platform's business
PlatformSet(p, call) ==
    [p EXCEPT !.url = IF honours = "query" THEN call.query_url ELSE call.json_url]

-----------------------------------------------------------------------------
(* Start-up and the registrar set_webhook(), app.py 63-106, 138-141, 210-218 *)

\* the path of the inbound route, app.py 157
ROUTE_PATH == "/webhook_telegram"

\* the request of app.py 87-91
DeleteWebhookCall ==
    [method |-> "deleteWebhook", query_url |-> "", json_url |-> WEBHOOK_URL,
     drop_pending_updates |-> TRUE]

\* the request of app.py 98-100: ?url=<WEBHOOK_URL>/webhook_telegram in the
\* query string, json={'url': WEBHOOK_URL} in the body
SetWebhookCall ==
    [method |-> "setWebhook", query_url |-> WEBHOOK_URL \o ROUTE_PATH,
     json_url |-> WEBHOOK_URL, drop_pending_updates |-> FALSE]

Issued(call, o) ==
    [run |-> regRun, call |-> call, outcome |-> o]

\* app.py 63: OpenAI(api_key=None) raises unless OPENAI_API_KEY supplies a key
ClientInit ==
    /\ pc = "client_init"
    /\ \E fallback \in BOOLEAN :
          pc' = IF SEA_LION_API_KEY = "" /\ ~fallback THEN "crashed" ELSE "check"
    /\ UNCHANGED <<env, launch, regRun, regRuns, regCalls, platform, honours>>
    /\ UNCHANGED <<hookVars, log, escVars>>

\* a guard that forgets the completion-backend key (app.py 77-79 left out)
RegCheck_NoKeyCheck ==
    /\ pc = "check"
    /\ IF TELEGRAM_TOKEN = "" \/ WEBHOOK_URL = ""
       THEN /\ pc' = "exited"
            /\ log' = log \cup {[by |-> 0, msg |-> "TELEGRAM_TOKEN and WEBHOOK_URL must be set"]}
            /\ UNCHANGED regRuns
       ELSE /\ pc' = "clear"
            /\ regRuns' = regRuns + 1
            /\ UNCHANGED log
    /\ UNCHANGED <<env, launch, regRun, regCalls, platform, honours>>
    /\ UNCHANGED <<hookVars, escVars>>

\* app.py 71-79: exit(1) when a credential or the URL is missing
RegCheck ==
    /\ pc = "check"
    /\ IF TELEGRAM_TOKEN = "" \/ WEBHOOK_URL = ""
       THEN /\ pc' = "exited"
            /\ log' = log \cup {[by |-> 0, msg |-> "TELEGRAM_TOKEN and WEBHOOK_URL must be set"]}
            /\ UNCHANGED regRuns
       ELSE IF SEA_LION_API_KEY = ""
       THEN /\ pc' = "exited"
            /\ log' = log \cup {[by |-> 0, msg |-> "SEA_LION_API_KEY must be set"]}
            /\ UNCHANGED regRuns
       ELSE /\ pc' = "clear"
            /\ regRuns' = regRuns + 1
            /\ UNCHANGED log
    /\ UNCHANGED <<env, launch, regRun, regCalls, platform, honours>>
    /\ UNCHANGED <<hookVars, escVars>>

\* app.py 86-95
RegClear ==
    /\ pc = "clear"
    /\ \E o \in HttpOutcomes :
          /\ regCalls' = Append(regCalls, Issued(DeleteWebhookCall, o))
          /\ platform' = IF Success(o)
                         THEN PlatformDelete(platform, DeleteWebhookCall.drop_pending_updates)
                         ELSE platform
          /\ pc' = IF Raised(o) THEN "crashed" ELSE "set"
          /\ log' = IF ~Raised(o) /\ o.status_code # 200
                    THEN log \cup {[by |-> 0, msg |-> "Failed to remove webhook"]}
                    ELSE log
    /\ UNCHANGED <<env, launch, regRun, regRuns, honours>>
    /\ UNCHANGED <<hookVars, escVars>>

\* app.py 97-104
RegSet ==
    /\ pc = "set"
    /\ \E o \in HttpOutcomes :
          /\ regCalls' = Append(regCalls, Issued(SetWebhookCall, o))
          /\ platform' = IF Success(o) THEN PlatformSet(platform, SetWebhookCall)
                         ELSE platform
          /\ pc' = IF Raised(o) THEN "crashed" ELSE "return"
          /\ log' = IF ~Raised(o) /\ o.status_code # 200
                    THEN log \cup {[by |-> 0, msg |-> "Failed to set webhook"]}
                    ELSE log
    /\ UNCHANGED <<env, launch, regRun, regRuns, honours>>
    /\ UNCHANGED <<hookVars, escVars>>

\* app.py 106, then 139-141 (first invocation, inside app.app_context()) or
\* 213-218 (second invocation, under __main__, outside any application
\* context: jsonify raises there and app.run() is never reached)
RegReturn ==
    /\ pc = "return"
    /\ IF regRun = 1
       THEN IF launch = "main"
            THEN pc' = "check" /\ regRun' = 2
            ELSE pc' = "serving" /\ UNCHANGED regRun
       ELSE pc' = "crashed" /\ UNCHANGED regRun
    /\ UNCHANGED <<env, launch, regRuns, regCalls, platform, honours>>
    /\ UNCHANGED <<hookVars, log, escVars>>

-----------------------------------------------------------------------------
(* Inbound updates and the two remote services as seen by the handler *)

Has(obj, key) == key \in DOMAIN obj

\* update shapes the platform delivers: two text messages of different chats,
\* an edited message, a photo message (no text), a message without chat
Updates ==
    { [update_id |-> 1, message |-> [chat |-> [id |-> 7], text |-> "hi"]],
      [update_id |-> 2, message |-> [chat |-> [id |-> 8], text |-> "yo"]],
      [update_id |-> 3, edited_message |-> [chat |-> [id |-> 7], text |-> "hi"]],
      [update_id |-> 4, message |-> [chat |-> [id |-> 7], photo |-> "p"]],
      [update_id |-> 5, message |-> [text |-> "hi"]] }

\* message.content of the first choice: None, or a string
None       == [none |-> TRUE, text |-> <<>>]
Some(text) == [none |-> FALSE, text |-> text]
Contents   == {None, Some(<<>>), Some(<<"*", "b", "*">>)}

\* the client of app.py 63 is built without max_retries, so the library's
\* default applies: a request that fails with a connection error or a
\* retryable status is sent again, up to MAX_RETRIES more times
MAX_RETRIES == 2

\* status codes the client retries on: 408, 409, 429 and 5xx
Retryable(status_code) == status_code \in {408, 409, 429} \/ status_code >= 500

\* what client.chat.completions.create can do: raise (a non-success status
\* or a transport failure), or return a response with a list of choices.
\* attempts is the number of HTTP requests the call put on the wire; the
\* backend answers every attempt of one call the same way
CompletionOutcomes ==
    {[raised |-> TRUE, error |-> "APIConnectionError", status_code |-> 0,
      attempts |-> 1 + MAX_RETRIES, choices |-> <<>>]}
    \cup {[raised |-> TRUE, error |-> "APIStatusError", status_code |-> sc,
           attempts |-> IF Retryable(sc) THEN 1 + MAX_RETRIES ELSE 1, choices |-> <<>>] :
        sc \in {400, 500}}
    \cup {[raised |-> FALSE, error |-> "", status_code |-> 200, attempts |-> 1,
           choices |-> <<>>]}
    \cup {[raised |-> FALSE, error |-> "", status_code |-> 200, attempts |-> 1,
           choices |-> <<[message |-> [content |-> c]]>>] :
        c \in Contents}

NoUpdate   == [update_id |-> 0]
NoResponse == [status |-> 0, mimetype |-> "", body |-> ""]

\* jsonify({'status': 'ok'}), app.py 201
AckResponse ==
    [status |-> 200, mimetype |-> "application/json", body |-> "{status: ok}"]

\* an Ignore answered like a failure
IgnoreResponse_Error ==
    [status |-> 500, mimetype |-> "text/html", body |-> "Internal Server Error"]

\* return '', 200, app.py 204
IgnoreResponse ==
    [status |-> 200, mimetype |-> "text/html", body |-> ""]

\* the framework's answer when the view function raises
ErrorResponse ==
    [status |-> 500, mimetype |-> "text/html", body |-> "Internal Server Error"]

Idle ==
    [pc |-> "idle", data |-> NoUpdate, chat_id |-> 0, user_text |-> "",
     requests |-> <<>>, attempts |-> 0, reply |-> None, escaped_reply |-> <<>>,
     response |-> NoResponse, raised |-> ""]

Deliveries == 1..MaxDeliveries

-----------------------------------------------------------------------------
(* webhook_telegram(), app.py 157-204 *)

\* 'message' in data, app.py 166
IsMessage(data) == Has(data, "message")

\* the subscripts of app.py 167-168 raise KeyError on a missing key
ExtractRaises(data) ==
    \/ ~Has(data.message, "chat")
    \/ ~Has(data.message.chat, "id")
    \/ ~Has(data.message, "text")

\* the messages of app.py 174-177 in the other order
CompletionRequest_UserFirst(user_text) ==
    [model |-> MODEL,
     messages |-> << [role |-> "user", content |-> user_text],
                     [role |-> "system", content |-> SYSTEM_PROMPT] >>]

\* app.py 172-178
CompletionRequest(user_text) ==
    [model |-> MODEL,
     messages |-> << [role |-> "system", content |-> SYSTEM_PROMPT],
                     [role |-> "user", content |-> user_text] >>]

\* reply or "", app.py 183
OrEmpty(reply) == IF reply.none THEN <<>> ELSE reply.text

\* app.py 187-192
SendPayload(chat_id, escaped_reply) ==
    [chat_id |-> chat_id, text |-> escaped_reply, parse_mode |-> "MarkdownV2"]

\* app.py 162-169, and 203-204 for an update without 'message'
WebhookRoute(d, data) ==
    /\ pc = "serving"
    /\ d = arrived + 1
    /\ d \in Deliveries
    /\ arrived' = d
    /\ IF ~IsMessage(data)
       THEN handlers' = [handlers EXCEPT ![d] =
                [@ EXCEPT !.pc = "done", !.data = data, !.response = IgnoreResponse]]
       ELSE IF ExtractRaises(data)
       THEN handlers' = [handlers EXCEPT ![d] =
                [@ EXCEPT !.pc = "done", !.data = data, !.raised = "KeyError",
                          !.response = ErrorResponse]]
       ELSE handlers' = [handlers EXCEPT ![d] =
                [@ EXCEPT !.pc = "complete", !.data = data,
                          !.chat_id = data.message.chat.id,
                          !.user_text = data.message.text]]
    /\ UNCHANGED <<sends, log>>
    /\ UNCHANGED <<procVars, escVars>>

\* app.py 171-183
WebhookComplete(d) ==
    /\ pc = "serving"
    /\ handlers[d].pc = "complete"
    /\ \E o \in CompletionOutcomes :
          LET h   == handlers[d]
              req == CompletionRequest(h.user_text)
          IN  IF o.raised
              THEN handlers' = [handlers EXCEPT ![d] =
                       [@ EXCEPT !.pc = "done", !.requests = Append(@, req), !.attempts = o.attempts,
                                 !.raised = o.error, !.response = ErrorResponse]]
              ELSE IF o.choices = <<>>
              THEN handlers' = [handlers EXCEPT ![d] =
                       [@ EXCEPT !.pc = "done", !.requests = Append(@, req), !.attempts = o.attempts,
                                 !.raised = "IndexError", !.response = ErrorResponse]]
              ELSE handlers' = [handlers EXCEPT ![d] =
                       [@ EXCEPT !.pc = "send", !.requests = Append(@, req), !.attempts = o.attempts,
                                 !.reply = o.choices[1].message.content,
                                 !.escaped_reply =
                                     escape_markdown_v2(OrEmpty(o.choices[1].message.content))]]
    /\ UNCHANGED <<arrived, sends, log>>
    /\ UNCHANGED <<procVars, escVars>>

\* a send that takes the chat id from the update routed last, as if it were
\* kept in one module-level variable
WebhookSend_SharedChat(d) ==
    /\ pc = "serving"
    /\ handlers[d].pc = "send"
    /\ \E o \in HttpOutcomes :
          LET h == handlers[d]
          IN  /\ sends' = Append(sends,
                     [by |-> d, method |-> "sendMessage",
                      json |-> SendPayload(handlers[arrived].chat_id, h.escaped_reply), outcome |-> o])
              /\ IF Raised(o)
                 THEN /\ handlers' = [handlers EXCEPT ![d] =
                             [@ EXCEPT !.pc = "done", !.raised = "RequestException",
                                       !.response = ErrorResponse]]
                      /\ UNCHANGED log
                 ELSE /\ handlers' = [handlers EXCEPT ![d] =
                             [@ EXCEPT !.pc = "done", !.response = AckResponse]]
                      /\ log' = IF o.status_code # 200
                                THEN log \cup {[by |-> d, msg |-> "Failed to send message"]}
                                ELSE log
    /\ UNCHANGED arrived
    /\ UNCHANGED <<procVars, escVars>>

\* app.py 186-201
WebhookSend(d) ==
    /\ pc = "serving"
    /\ handlers[d].pc = "send"
    /\ \E o \in HttpOutcomes :
          LET h == handlers[d]
          IN  /\ sends' = Append(sends,
                     [by |-> d, method |-> "sendMessage",
                      json |-> SendPayload(h.chat_id, h.escaped_reply), outcome |-> o])
              /\ IF Raised(o)
                 THEN /\ handlers' = [handlers EXCEPT ![d] =
                             [@ EXCEPT !.pc = "done", !.raised = "RequestException",
                                       !.response = ErrorResponse]]
                      /\ UNCHANGED log
                 ELSE /\ handlers' = [handlers EXCEPT ![d] =
                             [@ EXCEPT !.pc = "done", !.response = AckResponse]]
                      /\ log' = IF o.status_code # 200
                                THEN log \cup {[by |-> d, msg |-> "Failed to send message"]}
                                ELSE log
    /\ UNCHANGED arrived
    /\ UNCHANGED <<procVars, escVars>>

-----------------------------------------------------------------------------
(* The relay *)

Init ==
    /\ env \in Envs
    /\ launch \in {"main", "wsgi"}
    /\ pc = "client_init"
    /\ regRun = 1
    /\ regRuns = 0
    /\ regCalls = <<>>
    /\ platform \in {[url |-> "", pending |-> 0], [url |-> OLD_URL, pending |-> MaxPending]}
    /\ honours \in {"query", "json"}
    /\ handlers = [d \in Deliveries |-> Idle]
    /\ arrived = 0
    /\ sends = <<>>
    /\ log = {}
    /\ escIn = <<>>
    /\ escOut = <<>>
    /\ escTwice = <<>>
    /\ escPc = "off"

Next ==
    \/ ClientInit
    \/ RegCheck
    \/ RegClear
    \/ RegSet
    \/ RegReturn
    \/ \E data \in Updates : WebhookRoute(arrived + 1, data)
    \/ \E d \in Deliveries : WebhookComplete(d)
    \/ \E d \in Deliveries : WebhookSend(d)

Spec == Init /\ [][Next]_vars

-----------------------------------------------------------------------------
(* The escaper alone: every text up to MaxLen over EscAlphabet, escaped once *)
(* and then once more                                                       *)

EscapeInit ==
    /\ env = [TELEGRAM_TOKEN |-> TOKEN, WEBHOOK_URL |-> BASE_URL, SEA_LION_API_KEY |-> API_KEY]
    /\ launch = "wsgi"
    /\ pc = "serving"
    /\ regRun = 1
    /\ regRuns = 0
    /\ regCalls = <<>>
    /\ platform = [url |-> "", pending |-> 0]
    /\ honours = "query"
    /\ handlers = [d \in Deliveries |-> Idle]
    /\ arrived = 0
    /\ sends = <<>>
    /\ log = {}
    /\ escIn \in Texts(MaxLen)
    /\ escOut = <<>>
    /\ escTwice = <<>>
    /\ escPc = "in"

EscapeOnce ==
    /\ escPc = "in"
    /\ escOut' = escape_markdown_v2(escIn)
    /\ escPc' = "once"
    /\ UNCHANGED <<escIn, escTwice>>
    /\ UNCHANGED <<procVars, hookVars, log>>

EscapeTwice ==
    /\ escPc = "once"
    /\ escTwice' = escape_markdown_v2(escOut)
    /\ escPc' = "twice"
    /\ UNCHANGED <<escIn, escOut>>
    /\ UNCHANGED <<procVars, hookVars, log>>

EscapeNext == EscapeOnce \/ EscapeTwice

SpecEscape == EscapeInit /\ [][EscapeNext]_vars

-----------------------------------------------------------------------------
(* Vocabulary of the properties *)

Handled(d) == handlers[d].pc # "idle"
Done(d)    == handlers[d].pc = "done"

\* the sendMessage calls issued for delivery d
SendsBy(d) == {i \in DOMAIN sends : sends[i].by = d}

\* the update has a message sub-object with both chat id and text
Complete(data) ==
    /\ Has(data, "message")
    /\ Has(data.message, "chat")
    /\ Has(data.message.chat, "id")
    /\ Has(data.message, "text")

\* the update has a message sub-object that lacks the text or the chat id
Partial(data) == Has(data, "message") /\ ~Complete(data)

\* delivery d made its completion call and the call failed
CompletionFailed(d) ==
    /\ Done(d)
    /\ handlers[d].requests # <<>>
    /\ handlers[d].raised \in {"APIStatusError", "APIConnectionError", "IndexError"}

\* delivery d made its completion call and the call gave a reply
CompletionSucceeded(d) ==
    /\ handlers[d].pc \in {"send", "done"}
    /\ handlers[d].requests # <<>>
    /\ handlers[d].raised \notin {"APIStatusError", "APIConnectionError", "IndexError"}

\* the reserved characters as the specification lists them
ReservedChars ==
    {BS, "_", "*", "[", "]", "(", ")", "~", GRAVE, ">", "#", "+", "-", "=", "|",
     "{", "}", ".", "!"}

\* number of reserved characters among the first i characters of x
ReservedUpTo(x, i) == Cardinality({j \in 1..i : x[j] \in ReservedChars})

\* y is x with a backslash put before each reserved character and nothing
\* else changed
IsEscapeOf(y, x) ==
    /\ Len(y) = Len(x) + ReservedUpTo(x, Len(x))
    /\ \A i \in 1..Len(x) :
          /\ y[i + ReservedUpTo(x, i)] = x[i]
          /\ x[i] \in ReservedChars => y[i + ReservedUpTo(x, i) - 1] = BS

-----------------------------------------------------------------------------
(* C1..C10 *)

\* C1: a delivery whose completion call failed (raised status or transport
\* error, or a response without choices) is answered 200 and no sendMessage
\* call is issued for it.
C1_CompletionFailureAcked ==
    \A d \in Deliveries :
        CompletionFailed(d) =>
            /\ handlers[d].response.status = 200
            /\ SendsBy(d) = {}

\* C2: a delivery whose completion succeeded is answered 200 whatever the
\* sendMessage call does, and the send is issued once.
C2_SendOutcomeKeepsAck ==
    \A d \in Deliveries :
        CompletionSucceeded(d) /\ Done(d) =>
            /\ handlers[d].response.status = 200
            /\ Cardinality(SendsBy(d)) = 1

\* C3: every handled POST is answered 200 with a JSON acknowledgment body.
C3_AlwaysJsonAck ==
    \A d \in Deliveries :
        Done(d) =>
            /\ handlers[d].response.status = 200
            /\ handlers[d].response.mimetype = "application/json"

\* C4: in every registrar run the clear call comes right before the set call,
\* and a clear call that failed (status or raised error) is followed by the
\* set call of the same run.
C4_ClearThenSet ==
    \A i \in DOMAIN regCalls :
        /\ regCalls[i].call.method = "setWebhook" =>
              /\ i > 1
              /\ regCalls[i - 1].call.method = "deleteWebhook"
              /\ regCalls[i - 1].run = regCalls[i].run
        /\ (regCalls[i].call.method = "deleteWebhook" /\ ~Success(regCalls[i].outcome)) =>
              \/ i = Len(regCalls) /\ pc = "set"
              \/ /\ i < Len(regCalls)
                 /\ regCalls[i + 1].call.method = "setWebhook"
                 /\ regCalls[i + 1].run = regCalls[i].run

\* C5: an update without a message sub-object is answered 200 at once, with
\* no completion call and no send; an update whose message has chat id and
\* text is relayed with exactly that chat id and that text.
C5_RouteDecision ==
    \A d \in Deliveries :
        Handled(d) =>
            LET h == handlers[d] IN
            /\ ~Has(h.data, "message") =>
                  /\ h.pc = "done"
                  /\ h.response.status = 200
                  /\ h.raised = ""
                  /\ h.requests = <<>>
                  /\ SendsBy(d) = {}
            /\ Complete(h.data) =>
                  /\ h.chat_id = h.data.message.chat.id
                  /\ h.user_text = h.data.message.text
                  /\ h.pc = "done" => h.requests # <<>>
                  /\ \A k \in DOMAIN h.requests :
                        h.requests[k].messages[Len(h.requests[k].messages)].content
                            = h.data.message.text
                  /\ \A i \in SendsBy(d) : sends[i].json.chat_id = h.data.message.chat.id

C5_Witness ==
    \E d, e \in Deliveries :
        /\ Done(d) /\ ~Has(handlers[d].data, "message")
        /\ handlers[e].pc = "send" /\ Complete(handlers[e].data)
        /\ handlers[e].chat_id = 8 /\ handlers[e].user_text = "yo"

\* C6: an update whose message lacks the text or the chat id is answered 200
\* with no error raised, no completion call and no send.
C6_PartialIgnored ==
    \A d \in Deliveries :
        (Handled(d) /\ Partial(handlers[d].data)) =>
            /\ handlers[d].response.status = 200
            /\ handlers[d].raised = ""
            /\ handlers[d].requests = <<>>
            /\ SendsBy(d) = {}

\* C7: every sendMessage call carries the chat id of its update, the escaped
\* reply of its completion and parse mode MarkdownV2; the completion request
\* behind it is the system prompt followed by the update's text, and nothing
\* else.
C7_SendPayload ==
    \A i \in DOMAIN sends :
        LET h == handlers[sends[i].by] IN
        /\ sends[i].json.chat_id = h.data.message.chat.id
        /\ sends[i].json.parse_mode = "MarkdownV2"
        /\ IsEscapeOf(sends[i].json.text, OrEmpty(h.reply))
        /\ h.reply = Some(<<"*", "b", "*">>) =>
              sends[i].json.text = <<BS, "*", "b", BS, "*">>
        /\ Len(h.requests) = 1
        /\ Len(h.requests[1].messages) = 2
        /\ h.requests[1].messages[1] = [role |-> "system", content |-> SYSTEM_PROMPT]
        /\ h.requests[1].messages[2] = [role |-> "user", content |-> h.data.message.text]

C7_Witness ==
    \E i \in DOMAIN sends :
        /\ handlers[sends[i].by].reply = Some(<<"*", "b", "*">>)
        /\ handlers[sends[i].by].data.message.chat.id = 8

\* C8: escape(x) is x with a backslash before each reserved character and
\* every other character unchanged in place; its length is the length of x
\* plus the number of reserved characters; escape("") = "".
C8_EscapeShape ==
    escPc \in {"once", "twice"} =>
        /\ IsEscapeOf(escOut, escIn)
        /\ escIn = <<>> => escOut = <<>>
        /\ escIn = <<"a", "_">> => escOut = <<"a", BS, "_">>
        /\ escIn = <<"!", BS>> => escOut = <<BS, "!", BS, BS>>

C8_Witness ==
    /\ escPc = "once"
    /\ escIn = <<BS, "a", GRAVE>>
    /\ escOut = <<BS, BS, "a", BS, GRAVE>>

C10_RegistrarOnceBeforeServing ==
    /\ regRuns <= 1
    /\ (pc = "serving" \/ arrived > 0) =>
          /\ Len(regCalls) = 2
          /\ regCalls[1].call.method = "deleteWebhook" /\ ~Raised(regCalls[1].outcome)
          /\ regCalls[2].call.method = "setWebhook" /\ ~Raised(regCalls[2].outcome)

-----------------------------------------------------------------------------
(* C11..C17 *)

\* C11: with the platform token, the webhook base URL or the completion key
\* absent, the process ends at start-up: the registrar issues neither the
\* clear nor the set call and no inbound delivery is ever handled.
C11_MissingConfigFatal ==
    (\E k \in DOMAIN env : env[k] = "") =>
        /\ regCalls = <<>>
        /\ arrived = 0
        /\ pc \in {"client_init", "check", "exited", "crashed"}

C11_Witness ==
    /\ pc = "exited"
    /\ env.SEA_LION_API_KEY = ""
    /\ env.TELEGRAM_TOKEN # "" /\ env.WEBHOOK_URL # ""

\* C12: a transport exception raised by the clear, set, completion or send
\* call never leaves the registrar or the handler: the process keeps running
\* and the delivery is answered 200, as for a non-success status.
C12_TransportCaught ==
    /\ \A i \in DOMAIN regCalls : Raised(regCalls[i].outcome) => pc # "crashed"
    /\ \A d \in Deliveries :
          /\ handlers[d].raised \notin {"APIConnectionError", "RequestException"}
          /\ (Done(d) /\ \E i \in SendsBy(d) : Raised(sends[i].outcome)) =>
                handlers[d].response.status = 200

\* C13: a delivery makes at most one completion call and at most one send,
\* the send only after its completion call succeeded, and no request of
\* either call is sent a second time.
C13_OneCallEachNoRetry ==
    \A d \in Deliveries :
        /\ Len(handlers[d].requests) <= 1
        /\ handlers[d].attempts <= 1
        /\ Cardinality(SendsBy(d)) <= 1
        /\ SendsBy(d) # {} => CompletionSucceeded(d)

\* C14: a completion that succeeds with an empty or missing content leads to
\* exactly one send, with the empty string as text and parse mode MarkdownV2,
\* and the delivery is answered 200.
C14_EmptyReplySent ==
    \A d \in Deliveries :
        (CompletionSucceeded(d) /\ Done(d) /\ OrEmpty(handlers[d].reply) = <<>>) =>
            /\ Cardinality(SendsBy(d)) = 1
            /\ \A i \in SendsBy(d) :
                  /\ sends[i].json.text = <<>>
                  /\ sends[i].json.parse_mode = "MarkdownV2"
            /\ handlers[d].response.status = 200

\* C15: the set call submits one webhook target only, the base URL followed
\* by the path of the inbound route.
C15_OnlyCallbackUrl ==
    \A i \in DOMAIN regCalls :
        regCalls[i].call.method = "setWebhook" =>
            /\ regCalls[i].call.query_url = WEBHOOK_URL \o ROUTE_PATH
            /\ regCalls[i].call.json_url = WEBHOOK_URL \o ROUTE_PATH

\* C16: escaping twice is not escaping once: a text with r > 0 reserved
\* characters gives an escape(escape(x)) that differs from escape(x), every
\* character of each escape sequence being escaped again (two more
\* backslashes per reserved character of x); a text without reserved
\* characters is left as it is by both.
C16_EscapeTwiceGrows ==
    escPc = "twice" =>
        LET r == ReservedUpTo(escIn, Len(escIn)) IN
        /\ r > 0 =>
              /\ escTwice # escOut
              /\ Len(escTwice) = Len(escOut) + 2 * r
              /\ \A i \in 1..Len(escIn) :
                    escIn[i] \in ReservedChars =>
                        LET at == i + 3 * ReservedUpTo(escIn, i)
                        IN  <<escTwice[at - 3], escTwice[at - 2], escTwice[at - 1], escTwice[at]>>
                                = <<BS, BS, BS, escIn[i]>>
        /\ r = 0 => escTwice = escOut /\ escOut = escIn

C16_Witness ==
    /\ escPc = "twice"
    /\ escIn = <<"a", "_", BS>>
    /\ escTwice = <<"a", BS, BS, BS, "_", BS, BS, BS, BS>>

\* the parts of C17 that hold in every state: the locals of a delivery in
\* flight are those of its own update, and every send carries the chat id of
\* the update that caused it and the escaped reply given to that delivery's
\* own request
OwnDataOnly ==
    /\ \A d \in Deliveries :
          LET h == handlers[d] IN
          /\ h.pc \in {"complete", "send"} =>
                /\ h.chat_id = h.data.message.chat.id
                /\ h.user_text = h.data.message.text
          /\ \A k \in DOMAIN h.requests :
                h.requests[k].messages[2].content = h.data.message.text
          /\ h.pc = "send" => h.escaped_reply = escape_markdown_v2(OrEmpty(h.reply))
    /\ \A i \in DOMAIN sends :
          LET h == handlers[sends[i].by] IN
          /\ sends[i].json.chat_id = h.data.message.chat.id
          /\ sends[i].json.text = escape_markdown_v2(OrEmpty(h.reply))

\* a step changes the record of one delivery at most, and a record that is
\* done is never changed again
OneHandlerPerStep ==
    /\ Cardinality({d \in Deliveries : handlers'[d] # handlers[d]}) <= 1
    /\ \A d \in Deliveries : Done(d) => handlers'[d] = handlers[d]
    /\ \A i \in DOMAIN sends : i \in DOMAIN sends' /\ sends'[i] = sends[i]

\* C17: under any interleaving of deliveries, handlers share no mutable
\* state: a step of one handler leaves the others' records alone, and every
\* send carries the chat id of its own update and the escaped reply of its
\* own completion call.
C17_NoCrossTalk == []OwnDataOnly /\ [][OneHandlerPerStep]_vars

\* two deliveries of one chat, answered in the opposite order of arrival,
\* each with its own reply
C17_Witness ==
    \E i, j \in DOMAIN sends :
        /\ i < j
        /\ sends[i].by > sends[j].by
        /\ sends[i].json.chat_id = sends[j].json.chat_id
        /\ sends[i].json.text # sends[j].json.text

====
